---- MODULE Spec2Model ----
(***************************************************************************)
(* A model of vibemem's core: the MemoryStore (src/vibemem/core/memory.py), *)
(* the TokenCounter and CompressionStrategy (src/vibemem/core/tokens.py)    *)
(* and the forget command (src/vibemem/cli.py).                             *)
(*                                                                          *)
(* A Python str is a sequence of one-character strings, so that split,      *)
(* lower, rstrip, the substring test and truncation are computed and not    *)
(* assumed.  The tiktoken encoder is outside the repository: it is modelled *)
(* as the encoding with one token per character.  Time is counted in hours  *)
(* (time.time() / 3600).                                                    *)
(***************************************************************************)
EXTENDS Integers, Sequences, FiniteSets, TLC

VARIABLES
    \* MemoryStore._data, the clock, the snapshot file and the last call
    memories, categories, now, disk, last,
    \* CompressionStrategy.smart_compress: its arguments, locals and position
    items, target_tokens, preserve_categories, pc,
    protected, compressible, result, current_tokens, remaining_budget, k,
    \* MemoryStore.get_relevant: its arguments and its return value
    query, max_items, relevant,
    \* the add command run by several processes: each one's store and position
    proc

storeVars == <<memories, categories, now, disk, last>>
compressVars == <<items, target_tokens, preserve_categories, pc, protected,
                  compressible, result, current_tokens, remaining_budget, k>>
scoreVars == <<query, max_items, relevant>>
cliVars == <<proc>>
vars == <<storeVars, compressVars, scoreVars, cliVars>>

----------------------------------------------------------------------------
(* Python str operations *)

Min(a, b) == IF a <= b THEN a ELSE b
Max(a, b) == IF a >= b THEN a ELSE b

UpperCase == <<"A","B","C","D","E","F","G","H","I","J","K","L","M",
               "N","O","P","Q","R","S","T","U","V","W","X","Y","Z">>
LowerCase == <<"a","b","c","d","e","f","g","h","i","j","k","l","m",
               "n","o","p","q","r","s","t","u","v","w","x","y","z">>

LowerChar(c) ==
    IF \E i \in 1..26 : UpperCase[i] = c
    THEN LowerCase[CHOOSE i \in 1..26 : UpperCase[i] = c]
    ELSE c

\* str.lower()
Lower(t) == [i \in 1..Len(t) |-> LowerChar(t[i])]

\* str.isspace() of one character
IsSpace(c) == c \in {" ", "\t", "\n"}

\* set(t.split()): the maximal runs of non-whitespace characters
Words(t) ==
    { SubSeq(t, i, j) : <<i, j>> \in
        { p \in (1..Len(t)) \X (1..Len(t)) :
            /\ p[1] <= p[2]
            /\ \A m \in p[1]..p[2] : ~IsSpace(t[m])
            /\ (p[1] = 1 \/ IsSpace(t[p[1] - 1]))
            /\ (p[2] = Len(t) \/ IsSpace(t[p[2] + 1])) } }

\* sub in t
Contains(sub, t) ==
    \E i \in 0..(Len(t) - Len(sub)) : SubSeq(t, i + 1, i + Len(sub)) = sub

\* str.rstrip()
RECURSIVE RStrip(_)
RStrip(t) ==
    IF Len(t) > 0 /\ IsSpace(t[Len(t)]) THEN RStrip(SubSeq(t, 1, Len(t) - 1)) ELSE t

\* t[:n] of a Python sequence: a negative n counts from the end
Slice(t, n) ==
    IF n >= 0 THEN SubSeq(t, 1, Min(n, Len(t)))
    ELSE SubSeq(t, 1, Max(Len(t) + n, 0))

\* the index of the first ":" of t, 0 when there is none
FirstColon(t) ==
    IF \E i \in 1..Len(t) : t[i] = ":"
    THEN CHOOSE i \in 1..Len(t) : t[i] = ":" /\ \A j \in 1..(i - 1) : t[j] # ":"
    ELSE 0

Ellipsis == <<".", ".", ".">>
\* Python's None where a str is expected, and where a list of str is expected
NoneStr == <<"None">>
NoneList == <<NoneStr>>

Digits == <<"0","1","2","3","4","5","6","7","8","9">>
\* str(n) of one decimal digit
Digit(n) == <<Digits[n + 1]>>

----------------------------------------------------------------------------
(* TokenCounter *)

\* encoder.encode(text): one token per character
Encode(text) == text
\* encoder.decode(tokens)
Decode(tokens) == tokens

\* TokenCounter.count
Count(text) == IF text = <<>> THEN 0 ELSE Len(Encode(text))

\* TokenCounter.truncate_to_tokens
TruncateToTokens(text, max_tokens) ==
    IF Len(Encode(text)) <= max_tokens THEN text
    ELSE Decode(Slice(Encode(text), max_tokens))

----------------------------------------------------------------------------
(* CompressionStrategy *)

RECURSIVE SumTokens(_)
\* sum(item['tokens'] for item in s)
SumTokens(s) == IF s = <<>> THEN 0 ELSE s[1].tokens + SumTokens(Tail(s))

\* CompressionStrategy._summarize_single
SummarizeSingle(item, max_tokens) ==
    LET content == item.content
        cut == TruncateToTokens(content, max_tokens - 10)
        truncated == IF cut # content THEN RStrip(cut) \o Ellipsis ELSE cut
    IN [item EXCEPT !.content = truncated,
                    !.tokens = Count(truncated),
                    !.compressed = TRUE]

RECURSIVE SummarizeEachDropping(_, _)
\* a loop that drops what does not fit its share instead of summarizing it
SummarizeEachDropping(s, budget_per_item) ==
    IF s = <<>> THEN <<>>
    ELSE (IF s[1].tokens <= budget_per_item THEN <<s[1]>> ELSE <<>>)
         \o SummarizeEachDropping(Tail(s), budget_per_item)

RECURSIVE SummarizeEach(_, _)
\* the loop of _summarize_items
SummarizeEach(s, budget_per_item) ==
    IF s = <<>> THEN <<>>
    ELSE <<IF s[1].tokens <= budget_per_item THEN s[1]
           ELSE SummarizeSingle(s[1], budget_per_item)>>
         \o SummarizeEach(Tail(s), budget_per_item)

\* CompressionStrategy._summarize_items; len(items) = 0 raises ZeroDivisionError
SummarizeItemsRaises(s) == Len(s) = 0
SummarizeItems(s, target) ==
    SummarizeEach(s, Max(50, target \div Len(s)))

DefaultPreserve == << <<"c","r","i","t","i","c","a","l">>,
                      <<"e","r","r","o","r">>,
                      <<"a","r","c","h">> >>

\* preserve_categories or ["critical", "error", "arch"]
PreserveOrDefault(arg) == IF arg = NoneList \/ arg = <<>> THEN DefaultPreserve ELSE arg

InList(x, s) == \E i \in 1..Len(s) : s[i] = x

\* item['priority'] == 'critical' or item['category'] in preserve_categories
IsProtected(item, preserve) ==
    item.priority = "critical" \/ InList(item.category, preserve)

RECURSIVE SelectSeq2(_, _, _)
\* the items of s for which IsProtected is want, in the order of s
SelectSeq2(s, preserve, want) ==
    IF s = <<>> THEN <<>>
    ELSE (IF IsProtected(s[1], preserve) = want THEN <<s[1]>> ELSE <<>>)
         \o SelectSeq2(Tail(s), preserve, want)

\* priority_order.get(x['priority'], 2)
PriorityOrder(p) == IF p = "normal" THEN 0 ELSE IF p = "low" THEN 1 ELSE 2

\* the sort key (priority_order.get(priority, 2), -timestamp), compared as tuples
KeyLess(a, b) ==
    \/ PriorityOrder(a.priority) < PriorityOrder(b.priority)
    \/ /\ PriorityOrder(a.priority) = PriorityOrder(b.priority)
       /\ (0 - a.timestamp) < (0 - b.timestamp)

RECURSIVE InsertSorted(_, _)
\* x placed after every element whose key is not greater: list.sort is stable
InsertSorted(s, x) ==
    IF s = <<>> THEN <<x>>
    ELSE IF KeyLess(x, s[1]) THEN <<x>> \o s
    ELSE <<s[1]>> \o InsertSorted(Tail(s), x)

RECURSIVE SortCompressible(_)
\* compressible.sort(key=...)
SortCompressible(s) ==
    IF s = <<>> THEN <<>>
    ELSE InsertSorted(SortCompressible(SubSeq(s, 1, Len(s) - 1)), s[Len(s)])

----------------------------------------------------------------------------
(* smart_compress, one step per statement group and per loop iteration *)

\* the first branch of the loop body: the item fits whole
FitsWhole(item) == current_tokens + item.tokens <= target_tokens

\* smart_compress up to the loop: the partition, the infeasible-budget branch
\* (tokens.py 79-81) or the set-up of the greedy walk (tokens.py 83-91)
CompressStart ==
    /\ pc = "start"
    /\ LET preserve == PreserveOrDefault(preserve_categories)
           prot == SelectSeq2(items, preserve, TRUE)
           comp == SelectSeq2(items, preserve, FALSE)
           protected_tokens == SumTokens(prot)
       IN /\ protected' = prot
          /\ IF protected_tokens >= target_tokens
             THEN /\ compressible' = comp
                  /\ IF SummarizeItemsRaises(prot)
                     THEN pc' = "raised" /\ result' = <<>>
                     ELSE pc' = "done" /\ result' = SummarizeItems(prot, target_tokens)
                  /\ UNCHANGED <<current_tokens, remaining_budget, k>>
             ELSE /\ remaining_budget' = target_tokens - protected_tokens
                  /\ compressible' = SortCompressible(comp)
                  /\ result' = prot
                  /\ current_tokens' = protected_tokens
                  /\ k' = 1
                  /\ pc' = "walk"
    /\ UNCHANGED <<items, target_tokens, preserve_categories>>
    /\ UNCHANGED <<storeVars, scoreVars, cliVars>>

\* one iteration of "for item in compressible" (tokens.py 93-103)
Walk ==
    /\ pc = "walk"
    /\ k <= Len(compressible)
    /\ LET item == compressible[k]
       IN \/ /\ FitsWhole(item)
             /\ result' = Append(result, item)
             /\ current_tokens' = current_tokens + item.tokens
             /\ UNCHANGED remaining_budget
          \/ /\ ~FitsWhole(item)
             /\ remaining_budget > 100
             /\ LET summarized == SummarizeSingle(item, remaining_budget \div 2)
                IN /\ result' = Append(result, summarized)
                   /\ current_tokens' = current_tokens + summarized.tokens
                   /\ remaining_budget' = target_tokens - (current_tokens + summarized.tokens)
          \/ /\ ~FitsWhole(item)
             /\ ~(remaining_budget > 100)
             /\ UNCHANGED <<result, current_tokens, remaining_budget>>
    /\ k' = k + 1
    /\ UNCHANGED <<items, target_tokens, preserve_categories, pc, protected, compressible>>
    /\ UNCHANGED <<storeVars, scoreVars, cliVars>>

\* return result (tokens.py 105)
Return ==
    /\ pc = "walk"
    /\ k > Len(compressible)
    /\ pc' = "done"
    /\ UNCHANGED <<items, target_tokens, preserve_categories, protected, compressible,
                   result, current_tokens, remaining_budget, k>>
    /\ UNCHANGED <<storeVars, scoreVars, cliVars>>

----------------------------------------------------------------------------
(* inputs of smart_compress *)

MaxItems == 3

T_arch == <<"a","r","c","h">>
T_style == <<"s","t","y","l","e">>

\* a text of n characters, a blank at every eighth
Filler(n) == [i \in 1..n |-> IF i % 8 = 0 THEN " " ELSE "w"]

Sizes == {40, 120}
Targets == {0, 100, 110, 150, 300}
PreserveArgs == {NoneList, <<>>, <<T_style>>}
Kinds ==
    { [priority |-> pk[1], category |-> pk[2], size |-> n] :
        pk \in { <<"critical", T_style>>, <<"normal", T_arch>>,
                 <<"normal", T_style>>, <<"low", T_style>> },
        n \in Sizes }

\* a well-formed item: its token count is the count of its content; items come
\* in pairs of equal timestamp, so that the sort meets ties and differences
MakeItem(i, kind) ==
    [id |-> Digit(i), category |-> kind.category, subcategory |-> NoneStr,
     content |-> Filler(kind.size), priority |-> kind.priority,
     tokens |-> Count(Filler(kind.size)), timestamp |-> (i + 1) \div 2,
     compressed |-> FALSE]

CompressInputs ==
    UNION { { [i \in 1..n |-> MakeItem(i, f[i])] : f \in [1..n -> Kinds] } : n \in 0..MaxItems }

\* the snapshot file memories.json does not exist
NoFile == [exists |-> FALSE]

StoreIdle ==
    /\ memories = <<>>
    /\ categories = <<>>
    /\ now = 0
    /\ disk = NoFile
    /\ last = [op |-> "none"]

CompressIdle ==
    /\ items = <<>>
    /\ target_tokens = 0
    /\ preserve_categories = NoneList
    /\ pc = "idle"
    /\ protected = <<>>
    /\ compressible = <<>>
    /\ result = <<>>
    /\ current_tokens = 0
    /\ remaining_budget = 0
    /\ k = 0

ScoreIdle ==
    /\ query = <<>>
    /\ max_items = 0
    /\ relevant = <<>>

\* no process runs a command
CliIdle == proc = <<>>

InitCompress ==
    /\ items \in CompressInputs
    /\ target_tokens \in Targets
    /\ preserve_categories \in PreserveArgs
    /\ pc = "start"
    /\ protected = <<>>
    /\ compressible = <<>>
    /\ result = <<>>
    /\ current_tokens = 0
    /\ remaining_budget = 0
    /\ k = 0
    /\ StoreIdle
    /\ ScoreIdle
    /\ CliIdle

NextCompress == CompressStart \/ Walk \/ Return

SpecCompress == InitCompress /\ [][NextCompress]_vars

----------------------------------------------------------------------------
(* MemoryStore.get_relevant *)

\* if category_lower in query_lower or query_lower in category_lower: score += 10
CategoryMatch(query_lower, category_lower) ==
    IF Contains(category_lower, query_lower) \/ Contains(query_lower, category_lower)
    THEN 10 ELSE 0

\* overlap = len(query_words & content_words); score += overlap * 2
WordOverlap(query_words, content_words) ==
    2 * Cardinality(query_words \cap content_words)

\* the substring test with its operands exchanged
SubstringMatchReversed(query_lower, content_lower) ==
    IF Contains(content_lower, query_lower) THEN 5 ELSE 0

\* if query_lower in content_lower: score += 5
SubstringMatch(query_lower, content_lower) ==
    IF Contains(query_lower, content_lower) THEN 5 ELSE 0

\* critical: +5, low: -2
PriorityBoost(priority) ==
    IF priority = "critical" THEN 5 ELSE IF priority = "low" THEN 0 - 2 ELSE 0

\* a recency boost that never falls to zero
RecencyBoostNoCutoff(age_hours) == IF age_hours < 24 THEN 3 ELSE 1

\* age_hours < 24: +3, age_hours < 168: +1
RecencyBoost(age_hours) ==
    IF age_hours < 24 THEN 3 ELSE IF age_hours < 168 THEN 1 ELSE 0

\* the score the loop body of get_relevant gives an item at time t
Score(item, q, t) ==
    LET query_lower == Lower(q)
        query_words == Words(query_lower)
        content_lower == Lower(item.content)
        category_lower == Lower(item.category)
    IN CategoryMatch(query_lower, category_lower)
       + WordOverlap(query_words, Words(content_lower))
       + SubstringMatch(query_lower, content_lower)
       + PriorityBoost(item.priority)
       + RecencyBoost(t - item.timestamp)

\* a filter that keeps a score of zero
KeepScoreNonNegative(score) == score >= 0

\* if score > 0: scored.append((score, item))
KeepScore(score) == score > 0

RECURSIVE ScoredList(_, _, _)
\* scored after the loop: the (score, item) pairs kept, in the order of mems
ScoredList(mems, q, t) ==
    IF mems = <<>> THEN <<>>
    ELSE LET score == Score(mems[1], q, t)
         IN (IF KeepScore(score) THEN <<[score |-> score, item |-> mems[1]]>> ELSE <<>>)
            \o ScoredList(Tail(mems), q, t)

RECURSIVE InsertByScore(_, _)
\* x placed after every pair whose key -score is not greater: the sort is stable
InsertByScore(s, x) ==
    IF s = <<>> THEN <<x>>
    ELSE IF (0 - x.score) < (0 - s[1].score) THEN <<x>> \o s
    ELSE <<s[1]>> \o InsertByScore(Tail(s), x)

RECURSIVE SortScored(_)
\* scored.sort(key=lambda x: -x[0])
SortScored(s) ==
    IF s = <<>> THEN <<>>
    ELSE InsertByScore(SortScored(SubSeq(s, 1, Len(s) - 1)), s[Len(s)])

\* MemoryStore.get_relevant: [item for _, item in scored[:max_items]]
GetRelevantOf(mems, q, n, t) ==
    LET top == Slice(SortScored(ScoredList(mems, q, t)), n)
    IN [j \in 1..Len(top) |-> top[j].item]

\* a call of store.get_relevant(query, max_items) at time now
GetRelevant ==
    /\ last.op = "none"
    /\ relevant' = GetRelevantOf(memories, query, max_items, now)
    /\ last' = [op |-> "get_relevant"]
    /\ UNCHANGED <<memories, categories, now, disk, query, max_items>>
    /\ UNCHANGED <<compressVars, cliVars>>

----------------------------------------------------------------------------
(* inputs of get_relevant *)

MaxScoreItems == 3

\* content with q inserted after its first p characters
Insert(content, q, p) ==
    SubSeq(content, 1, p) \o q \o SubSeq(content, p + 1, Len(content))

T_api == <<"a","p","i">>
T_port == <<"p","o","r","t">>
T_runs_on_port_8002 ==
    <<"r","u","n","s"," ","o","n"," ","p","o","r","t"," ","8","0","0","2">>
T_use_tabs == <<"u","s","e"," ","t","a","b","s">>

\* a stored item of the given age at the time of the query (200 h)
ScoreItem(i, category, content, priority, age) ==
    [id |-> Digit(i), category |-> category, subcategory |-> NoneStr,
     content |-> content, priority |-> priority, tokens |-> Count(content),
     timestamp |-> 200 - age, compressed |-> FALSE]

\* a few kinds of item whose scores are positive, zero and negative, some equal
ScoreKinds ==
    { [category |-> <<"c">>, content |-> x[1], priority |-> x[2], age |-> x[3]] :
        x \in { << <<"b">>, "critical", 0 >>, << <<"b">>, "normal", 0 >>,
                << <<"b">>, "normal", 168 >>, << <<"b">>, "low", 168 >>,
                << <<"b">>, "low", 0 >>, << <<"a", " ", "b">>, "low", 0 >>,
                << <<"a", " ", "b">>, "normal", 168 >>,
                << <<"a", " ", "b">>, "critical", 168 >> } }

\* any store of up to MaxScoreItems items, any query of a few, any max_items
InitScoreLists ==
    /\ memories \in UNION { { [i \in 1..n |->
                                 ScoreItem(i, f[i].category, f[i].content,
                                           f[i].priority, f[i].age)] :
                               f \in [1..n -> ScoreKinds] } : n \in 0..MaxScoreItems }
    /\ query \in { <<"a">>, <<"B">> }
    /\ max_items \in 0..(MaxScoreItems + 1)

PairQueries == { <<"a">>, <<"a", " ">>, <<" ", "a">>, <<"A">>, <<"a", " ", "b">>, <<>>, <<" ">> }
PairBases == PairQueries \cup { <<"b">>, <<"b", " ">>, <<"a", " ", "b">>, <<"a", "b">>,
                               <<"b", " ", " ", "b">> }

\* two items alike but for one occurrence of the query inserted in the second
InitScorePairs ==
    /\ query \in PairQueries
    /\ \E base \in PairBases, c \in { <<"a">>, <<"c">> }, a \in {0, 168} :
         \E p \in 0..Len(base) :
            memories = << ScoreItem(1, c, base, "normal", a),
                          ScoreItem(2, c, Insert(base, query, p), "normal", a) >>
    /\ max_items = 20

\* the scenario of the query "port", the two items added at any time before it
InitScoreScenario ==
    /\ query = T_port
    /\ \E a1, a2 \in {0, 23, 24, 167, 168, 200} :
          memories = << ScoreItem(1, T_api, T_runs_on_port_8002, "normal", a1),
                        ScoreItem(2, T_style, T_use_tabs, "normal", a2) >>
    /\ max_items \in {1, 20}

InitScore ==
    /\ InitScoreScenario \/ InitScorePairs \/ InitScoreLists
    /\ now = 200
    /\ categories = <<>>
    /\ disk = NoFile
    /\ last = [op |-> "none"]
    /\ relevant = <<>>
    /\ CompressIdle
    /\ CliIdle

NextScore == GetRelevant

SpecScore == InitScore /\ [][NextScore]_vars

----------------------------------------------------------------------------
(* MemoryStore: add, remove, save, load; the forget command *)

\* one hexadecimal character per character of the input: the letters a-f and the
\* digits stand for themselves, anything else is "f"
HexChar(c) ==
    IF c \in {"0","1","2","3","4","5","6","7","8","9","a","b","c","d","e","f"}
    THEN c ELSE "f"

\* hashlib.sha256(x.encode()).hexdigest(): a deterministic hexadecimal text
HexDigest(x) == [i \in 1..Len(x) |-> HexChar(x[i])]

\* MemoryStore._generate_id at clock reading t: the hash of content + str(time)
GenerateId(content, t) == Slice(HexDigest(content \o Digit(t)), 12)

\* add's parse of "category:subcategory": category.split(":", 1)
SplitCategory(category) ==
    LET c == FirstColon(category)
    IN IF c > 0
       THEN [category |-> SubSeq(category, 1, c - 1),
             subcategory |-> SubSeq(category, c + 1, Len(category))]
       ELSE [category |-> category, subcategory |-> NoneStr]

\* the item add builds (memory.py 88-97)
NewItem(category, content, priority, t) ==
    [id |-> GenerateId(content, t),
     category |-> SplitCategory(category).category,
     subcategory |-> SplitCategory(category).subcategory,
     content |-> content, priority |-> priority, tokens |-> Count(content),
     timestamp |-> t, compressed |-> FALSE]

\* a category bookkeeping that files the item under the whole argument
TrackCategoryUnsplit(cats, category, item) ==
    LET base == IF category \in DOMAIN cats THEN cats[category]
                ELSE [count |-> 0, tokens |-> 0]
    IN [c \in DOMAIN cats \cup {category} |->
          IF c = category
          THEN [count |-> base.count + 1, tokens |-> base.tokens + item.tokens]
          ELSE cats[c]]

\* add's category bookkeeping (memory.py 101-108); category is the add argument
TrackCategory(cats, category, item) ==
    LET cat == item.category
        base == IF cat \in DOMAIN cats THEN cats[cat] ELSE [count |-> 0, tokens |-> 0]
    IN [c \in DOMAIN cats \cup {cat} |->
          IF c = cat
          THEN [count |-> base.count + 1, tokens |-> base.tokens + item.tokens]
          ELSE cats[c]]

\* the test of remove's loop: item["id"] == item_id or item_id in item["content"]
Matches(item, item_id) == item.id = item_id \/ Contains(item_id, item.content)

\* a search that prefers an item whose id is the argument to a content match
FirstMatchIdFirst(mems, item_id) ==
    IF \E i \in 1..Len(mems) : mems[i].id = item_id
    THEN CHOOSE i \in 1..Len(mems) :
            mems[i].id = item_id /\ \A j \in 1..(i - 1) : mems[j].id # item_id
    ELSE IF \E i \in 1..Len(mems) : Matches(mems[i], item_id)
    THEN CHOOSE i \in 1..Len(mems) :
            Matches(mems[i], item_id) /\ \A j \in 1..(i - 1) : ~Matches(mems[j], item_id)
    ELSE 0

\* the index remove's loop stops at, 0 when no item matches
FirstMatch(mems, item_id) ==
    IF \E i \in 1..Len(mems) : Matches(mems[i], item_id)
    THEN CHOOSE i \in 1..Len(mems) :
            Matches(mems[i], item_id) /\ \A j \in 1..(i - 1) : ~Matches(mems[j], item_id)
    ELSE 0

\* list.pop(i)
Pop(s, i) == SubSeq(s, 1, i - 1) \o SubSeq(s, i + 1, Len(s))

\* remove's category bookkeeping (memory.py 119-122)
UntrackCategory(cats, removed) ==
    LET cat == removed.category
    IN IF cat \in DOMAIN cats
       THEN [cats EXCEPT ![cat] = [count |-> cats[cat].count - 1,
                                   tokens |-> cats[cat].tokens - removed.tokens]]
       ELSE cats

\* a remove that changes the store although nothing matched
RemoveFromDroppingLast(data, item_id) ==
    LET i == FirstMatch(data.memories, item_id)
    IN IF i = 0
       THEN [memories |-> Slice(data.memories, 0 - 1), categories |-> data.categories,
             found |-> FALSE, removed |-> NoneStr]
       ELSE [memories |-> Pop(data.memories, i),
             categories |-> UntrackCategory(data.categories, data.memories[i]),
             found |-> TRUE, removed |-> data.memories[i]]

\* MemoryStore.remove on _data: the new _data and what is returned
RemoveFrom(data, item_id) ==
    LET i == FirstMatch(data.memories, item_id)
    IN IF i = 0
       THEN [memories |-> data.memories, categories |-> data.categories,
             found |-> FALSE, removed |-> NoneStr]
       ELSE [memories |-> Pop(data.memories, i),
             categories |-> UntrackCategory(data.categories, data.memories[i]),
             found |-> TRUE, removed |-> data.memories[i]]

\* json: the characters of a str that are not written as themselves
JsonSpecial == {"\"", "\\", "\n", "\t"}

\* json: how a special character is written inside a JSON string
JsonEscapeChar(c) ==
    IF c = "\n" THEN <<"\\", "n">>
    ELSE IF c = "\t" THEN <<"\\", "t">>
    ELSE <<"\\", c>>

\* the index of the first character of t that is in set, 0 when there is none
FirstIn(t, set) ==
    IF \E i \in 1..Len(t) : t[i] \in set
    THEN CHOOSE i \in 1..Len(t) : t[i] \in set /\ \A j \in 1..(i - 1) : t[j] \notin set
    ELSE 0

RECURSIVE JsonEscape(_)
\* json: the text of a str between the quotes, every special character replaced
JsonEscape(t) ==
    LET i == FirstIn(t, JsonSpecial)
    IN IF i = 0 THEN t
       ELSE SubSeq(t, 1, i - 1) \o JsonEscapeChar(t[i])
            \o JsonEscape(SubSeq(t, i + 1, Len(t)))

\* the character an escape sequence "\c" stands for
JsonEscaped(c) == IF c = "n" THEN "\n" ELSE IF c = "t" THEN "\t" ELSE c

\* a reader that takes the text between the quotes as it is
JsonUnescapeRaw(t) == t

RECURSIVE JsonUnescape(_)
\* json: the str a JSON string's text between the quotes stands for, every
\* escape sequence replaced
JsonUnescape(t) ==
    LET i == FirstIn(t, {"\\"})
    IN IF i = 0 \/ i = Len(t) THEN t
       ELSE SubSeq(t, 1, i - 1) \o <<JsonEscaped(t[i + 1])>>
            \o JsonUnescape(SubSeq(t, i + 2, Len(t)))

JsonNull == <<"n", "u", "l", "l">>
JsonTrue == <<"t", "r", "u", "e">>
JsonFalse == <<"f", "a", "l", "s", "e">>

\* json.dumps of a str, and of a value that is a str or None
JsonString(t) == <<"\"">> \o JsonEscape(t) \o <<"\"">>
JsonStringOrNull(v) == IF v = NoneStr THEN JsonNull ELSE JsonString(v)

\* json.loads of the text of a JSON string or null
JsonLoadString(t) ==
    IF t = JsonNull THEN NoneStr ELSE JsonUnescape(SubSeq(t, 2, Len(t) - 1))

RECURSIVE Str(_)
\* str(n) of an int, as json.dumps writes a number
Str(n) ==
    IF n < 0 THEN <<"-">> \o Str(0 - n)
    ELSE IF n < 10 THEN Digit(n)
    ELSE Str(n \div 10) \o Digit(n % 10)

\* the value of one decimal digit
DigitValue(c) == (CHOOSE i \in 1..10 : Digits[i] = c) - 1

RECURSIVE ParseNat(_)
ParseNat(t) ==
    IF t = <<>> THEN 0
    ELSE 10 * ParseNat(SubSeq(t, 1, Len(t) - 1)) + DigitValue(t[Len(t)])

\* json.loads of the text of a number
ParseInt(t) == IF t[1] = "-" THEN 0 - ParseNat(Tail(t)) ELSE ParseNat(t)

\* the spelling of a priority
PrioritySpelling ==
    [critical |-> <<"c","r","i","t","i","c","a","l">>,
     normal |-> <<"n","o","r","m","a","l">>,
     low |-> <<"l","o","w">>]

\* the priority a spelling stands for
PriorityOf(t) == CHOOSE q \in DOMAIN PrioritySpelling : PrioritySpelling[q] = t

\* json.dump of one item: every field as the text json writes for it
JsonDumpItem(item) ==
    [id |-> JsonString(item.id),
     category |-> JsonString(item.category),
     subcategory |-> JsonStringOrNull(item.subcategory),
     content |-> JsonString(item.content),
     priority |-> JsonString(PrioritySpelling[item.priority]),
     tokens |-> Str(item.tokens),
     timestamp |-> Str(item.timestamp),
     compressed |-> IF item.compressed THEN JsonTrue ELSE JsonFalse]

\* json.load of one item
JsonLoadItem(j) ==
    [id |-> JsonLoadString(j.id),
     category |-> JsonLoadString(j.category),
     subcategory |-> JsonLoadString(j.subcategory),
     content |-> JsonLoadString(j.content),
     priority |-> PriorityOf(JsonLoadString(j.priority)),
     tokens |-> ParseInt(j.tokens),
     timestamp |-> ParseInt(j.timestamp),
     compressed |-> (j.compressed = JsonTrue)]

\* json.dump of the categories mapping: the keys are written as JSON strings
JsonDumpCategories(cats) ==
    [key \in { JsonString(c) : c \in DOMAIN cats } |->
        LET c == CHOOSE d \in DOMAIN cats : JsonString(d) = key
        IN [count |-> Str(cats[c].count), tokens |-> Str(cats[c].tokens)]]

\* json.load of the categories mapping
JsonLoadCategories(j) ==
    [c \in { JsonLoadString(key) : key \in DOMAIN j } |->
        LET key == CHOOSE d \in DOMAIN j : JsonLoadString(d) = c
        IN [count |-> ParseInt(j[key].count), tokens |-> ParseInt(j[key].tokens)]]

\* json.dump(data, f, indent=2): the text written for _data
JsonDump(data) ==
    [memories |-> [i \in 1..Len(data.memories) |-> JsonDumpItem(data.memories[i])],
     categories |-> JsonDumpCategories(data.categories)]

\* json.load(f): the data read from that text
JsonLoad(text) ==
    [memories |-> [i \in 1..Len(text.memories) |-> JsonLoadItem(text.memories[i])],
     categories |-> JsonLoadCategories(text.categories)]

\* the snapshot file memories.json after save: it is held as the document that
\* json.load reads from the text that json.dump wrote
Snapshot(mems, cats) ==
    LET document == JsonLoad(JsonDump([memories |-> mems, categories |-> cats]))
    IN [exists |-> TRUE, memories |-> document.memories,
        categories |-> document.categories]

\* the data of the store initialize builds (memory.py 28-33)
EmptyData == [memories |-> <<>>, categories |-> <<>>]

\* MemoryStore.load: the _data of the store it returns
LoadedData(file) ==
    IF file.exists THEN [memories |-> file.memories, categories |-> file.categories]
    ELSE EmptyData

\* the file after load: initialize saves the empty store when there was no file
FileAfterLoad(file) ==
    IF file.exists THEN file ELSE Snapshot(EmptyData.memories, EmptyData.categories)

MaxMem == 2
MaxTime == 1

AddCategories == { <<"x">>, <<"x", ":", "y">>, <<"z">> }
AddContents == { <<"a">>, <<"a", "1">> }
RemoveArgs == { <<>>, <<"a", "1">>, <<"a", "0">>, <<"b">> }

\* the clock moves on between two calls
Tick ==
    /\ now < MaxTime
    /\ now' = now + 1
    /\ UNCHANGED <<memories, categories, disk, last>>
    /\ UNCHANGED <<compressVars, scoreVars, cliVars>>

\* store.add(category, content, priority)
Add(category, content, priority) ==
    /\ Len(memories) < MaxMem
    /\ LET item == NewItem(category, content, priority, now)
       IN /\ memories' = Append(memories, item)
          /\ categories' = TrackCategory(categories, category, item)
          /\ last' = [op |-> "add", arg |-> category, found |-> TRUE, ret |-> item,
                      saved |-> FALSE]
    /\ UNCHANGED <<now, disk>>
    /\ UNCHANGED <<compressVars, scoreVars, cliVars>>

\* store.remove(item_id)
Remove(item_id) ==
    /\ LET r == RemoveFrom([memories |-> memories, categories |-> categories], item_id)
       IN /\ memories' = r.memories
          /\ categories' = r.categories
          /\ last' = [op |-> "remove", arg |-> item_id, found |-> r.found,
                      ret |-> r.removed, saved |-> FALSE]
    /\ UNCHANGED <<now, disk>>
    /\ UNCHANGED <<compressVars, scoreVars, cliVars>>

\* store.save() as one step: the snapshot is rewritten whole; the rendering of
\* hot.md that follows it is stepped through in SaveCall below
Save ==
    /\ disk' = Snapshot(memories, categories)
    /\ last' = [op |-> "save", arg |-> <<>>, found |-> FALSE, ret |-> NoneStr,
                saved |-> TRUE]
    /\ UNCHANGED <<memories, categories, now>>
    /\ UNCHANGED <<compressVars, scoreVars, cliVars>>

\* store = MemoryStore.load(): a missing snapshot is initialized and saved
Load ==
    /\ memories' = LoadedData(disk).memories
    /\ categories' = LoadedData(disk).categories
    /\ disk' = FileAfterLoad(disk)
    /\ last' = [op |-> "load", arg |-> <<>>, found |-> disk.exists, ret |-> NoneStr,
                saved |-> ~disk.exists]
    /\ UNCHANGED now
    /\ UNCHANGED <<compressVars, scoreVars, cliVars>>

\* forget's "if removed: store.save()"
ForgetSaves(found) == found

\* the forget command (cli.py 126-135): load, remove, save if an item was removed
Forget(item_id) ==
    /\ LET r == RemoveFrom(LoadedData(disk), item_id)
       IN /\ memories' = r.memories
          /\ categories' = r.categories
          /\ disk' = IF ForgetSaves(r.found) THEN Snapshot(r.memories, r.categories)
                     ELSE FileAfterLoad(disk)
          /\ last' = [op |-> "forget", arg |-> item_id, found |-> r.found,
                      ret |-> r.removed, saved |-> ForgetSaves(r.found)]
    /\ UNCHANGED now
    /\ UNCHANGED <<compressVars, scoreVars, cliVars>>

\* the add command (cli.py 63-65): load, add, save
CliAdd(category, content, priority) ==
    /\ Len(LoadedData(disk).memories) < MaxMem
    /\ LET data == LoadedData(disk)
           item == NewItem(category, content, priority, now)
       IN /\ memories' = Append(data.memories, item)
          /\ categories' = TrackCategory(data.categories, category, item)
          /\ disk' = Snapshot(memories', categories')
          /\ last' = [op |-> "cli_add", arg |-> category, found |-> TRUE, ret |-> item,
                      saved |-> TRUE]
    /\ UNCHANGED now
    /\ UNCHANGED <<compressVars, scoreVars, cliVars>>

Init ==
    /\ memories = <<>>
    /\ categories = <<>>
    /\ now = 0
    /\ disk = NoFile
    /\ last = [op |-> "none"]
    /\ CompressIdle
    /\ ScoreIdle
    /\ CliIdle

\* one MemoryStore object, used through its methods
Next ==
    \/ Tick
    \/ \E c \in AddCategories, t \in AddContents : Add(c, t, "normal")
    \/ \E x \in RemoveArgs : Remove(x)

Spec == Init /\ [][Next]_vars

\* the category arguments of the add command: with a subcategory, and without
CliCategories == { <<"x", ":", "y">>, <<"z">> }

\* the commands add and forget, one process each, on one snapshot file; the store
\* object a command leaves behind may still be used
NextCli ==
    \/ Tick
    \/ \E c \in CliCategories, t \in AddContents : CliAdd(c, t, "normal")
    \/ \E x \in RemoveArgs : Forget(x)
    \/ \E x \in RemoveArgs : Remove(x)

SpecCli == Init /\ [][NextCli]_vars

\* aggregates a snapshot file may hold for one item of category x and 2 tokens:
\* the right ones, smaller ones, and none at all
LoadableAggregates ==
    { [c \in {<<"x">>} |-> [count |-> n[1], tokens |-> n[2]]] :
        n \in { <<1, 2>>, <<0, 0>>, <<1, 0>> } } \cup { <<>> }

\* snapshot files written by an earlier version or edited by hand: json.load
\* takes the aggregates as they are (memory.py 65-68)
LoadableSnapshots ==
    { Snapshot(<<NewItem(<<"x">>, <<"a", "1">>, "normal", 0)>>, cats) :
        cats \in LoadableAggregates }

\* a store that MemoryStore.load has just built from a snapshot file
InitLoaded ==
    /\ disk \in LoadableSnapshots
    /\ memories = LoadedData(disk).memories
    /\ categories = LoadedData(disk).categories
    /\ now = 0
    /\ last = [op |-> "none"]
    /\ CompressIdle
    /\ ScoreIdle
    /\ CliIdle

SpecLoaded == InitLoaded /\ [][Next]_vars

\* add arguments with a subcategory and without, and contents with characters
\* that json escapes
PersistCategories == { <<"x", ":", "y">>, <<"z">> }
PersistContents == { <<"a">>, <<"\"", "\\", "n", "\n">> }
PersistRemoveArgs == { <<"a">>, <<"\"">> }

\* a store constructed empty, at some reading of the clock, and no snapshot file
InitPersist ==
    /\ memories = <<>>
    /\ categories = <<>>
    /\ now \in 0..MaxTime
    /\ disk = NoFile
    /\ last = [op |-> "none"]
    /\ CompressIdle
    /\ ScoreIdle
    /\ CliIdle

\* one store object that is saved, and replaced by what load returns
NextPersist ==
    \/ \E c \in PersistCategories, t \in PersistContents : Add(c, t, "normal")
    \/ \E x \in PersistRemoveArgs : Remove(x)
    \/ Save
    \/ Load

SpecPersist == InitPersist /\ [][NextPersist]_vars

----------------------------------------------------------------------------
(* the add command (cli.py 63-65) run by two processes on one snapshot file, *)
(* one step per statement: nothing locks the file between load and save      *)

Procs == {1, 2}

\* a writer that keeps the items of the file that the store does not hold
WriteFileMerging(file, mems, cats) ==
    LET old == LoadedData(file).memories
        kept == SelectSeq(old, LAMBDA m : \A i \in 1..Len(mems) : mems[i] # m)
    IN Snapshot(kept \o mems, cats)

\* open(memory_file, "w") and json.dump (memory.py 74-75): whatever the file
\* held is replaced by the snapshot of this store
WriteFile(file, mems, cats) == Snapshot(mems, cats)

\* store = MemoryStore.load(is_global=is_global): the file is there and is read,
\* or it is not and the store will be initialized (memory.py 61-68)
CmdLoad(p) ==
    /\ proc[p].pc = "load"
    /\ IF disk.exists
       THEN proc' = [proc EXCEPT ![p].memories = LoadedData(disk).memories,
                                 ![p].categories = LoadedData(disk).categories,
                                 ![p].pc = "add"]
       ELSE proc' = [proc EXCEPT ![p].pc = "initialize"]
    /\ UNCHANGED <<memories, categories, now, disk, last>>
    /\ UNCHANGED <<compressVars, scoreVars>>

\* return cls.initialize(path): the empty store is built and saved, whatever the
\* file has become since it was found missing (memory.py 28-36)
CmdInitialize(p) ==
    /\ proc[p].pc = "initialize"
    /\ proc' = [proc EXCEPT ![p].memories = EmptyData.memories,
                            ![p].categories = EmptyData.categories,
                            ![p].pc = "add"]
    /\ disk' = WriteFile(disk, EmptyData.memories, EmptyData.categories)
    /\ last' = [op |-> "save", by |-> p]
    /\ UNCHANGED <<memories, categories, now>>
    /\ UNCHANGED <<compressVars, scoreVars>>

\* store.add(category, content, priority)
CmdAdd(p) ==
    /\ proc[p].pc = "add"
    /\ LET item == NewItem(proc[p].category, proc[p].content, "normal", now)
       IN proc' = [proc EXCEPT ![p].memories = Append(@, item),
                               ![p].categories =
                                   TrackCategory(@, proc[p].category, item),
                               ![p].added = <<item>>,
                               ![p].pc = "save"]
    /\ UNCHANGED <<memories, categories, now, disk, last>>
    /\ UNCHANGED <<compressVars, scoreVars>>

\* store.save(), after which the command ends
CmdSave(p) ==
    /\ proc[p].pc = "save"
    /\ disk' = WriteFile(disk, proc[p].memories, proc[p].categories)
    /\ proc' = [proc EXCEPT ![p].pc = "done"]
    /\ last' = [op |-> "save", by |-> p]
    /\ UNCHANGED <<memories, categories, now>>
    /\ UNCHANGED <<compressVars, scoreVars>>

RaceContents == { <<"a">>, <<"b">> }

\* the file the two commands find: none, or one holding an earlier item
RaceFiles ==
    { NoFile,
      LET item == NewItem(<<"x">>, <<"c">>, "normal", 0)
      IN Snapshot(<<item>>, TrackCategory(<<>>, <<"x">>, item)) }

\* two add commands have been started, each with its arguments
InitRace ==
    /\ proc \in { [p \in Procs |->
                     [pc |-> "load", memories |-> <<>>, categories |-> <<>>,
                      category |-> c[p], content |-> t[p], added |-> <<>>]] :
                  c \in [Procs -> { <<"x">>, <<"z">> }], t \in [Procs -> RaceContents] }
    /\ disk \in RaceFiles
    /\ memories = <<>>
    /\ categories = <<>>
    /\ now = 0
    /\ last = [op |-> "none"]
    /\ CompressIdle
    /\ ScoreIdle

NextRace ==
    \/ Tick
    \/ \E p \in Procs : CmdLoad(p)
    \/ \E p \in Procs : CmdInitialize(p)
    \/ \E p \in Procs : CmdAdd(p)
    \/ \E p \in Procs : CmdSave(p)

SpecRace == InitRace /\ [][NextRace]_vars

----------------------------------------------------------------------------
(* get_hot, and the rendering of hot.md inside save: the store's own list is *)
(* handed to smart_compress, whose steps are the ones above                  *)

\* get_hot's default budget, the one _write_hot_file uses (memory.py 178, 203)
HotMaxTokens == 8000

\* config.compression.get("preserve_categories", []) of the default configuration
ConfigPreserve == DefaultPreserve

\* a call of get_hot or of save has not returned yet
InCall == last.op \in {"get_hot", "save"} /\ ~last.returned

\* a summary written into the item itself instead of into a copy of it
ItemsAfterCallInPlace(its, res) ==
    [i \in 1..Len(its) |->
        IF \E j \in 1..Len(res) : res[j].id = its[i].id /\ res[j].compressed
        THEN res[CHOOSE j \in 1..Len(res) : res[j].id = its[i].id /\ res[j].compressed]
        ELSE its[i]]

\* the list handed to smart_compress is self._data["memories"] itself (memory.py
\* 183); this is that list after the call: smart_compress assigns to no element
\* and to no place of it, and _summarize_single writes into item.copy()
\* (tokens.py 134)
ItemsAfterCall(its, res) == its

\* the arguments smart_compress is entered with
EnterCompress(max_tokens) ==
    /\ items' = memories
    /\ target_tokens' = max_tokens
    /\ preserve_categories' = ConfigPreserve
    /\ pc' = "start"
    /\ protected' = <<>>
    /\ compressible' = <<>>
    /\ result' = <<>>
    /\ current_tokens' = 0
    /\ remaining_budget' = 0
    /\ k' = 0

\* store.get_hot(max_tokens), up to its call of smart_compress
HotCall(max_tokens) ==
    /\ ~InCall
    /\ EnterCompress(max_tokens)
    /\ last' = [op |-> "get_hot", returned |-> FALSE]
    /\ UNCHANGED <<memories, categories, now, disk>>
    /\ UNCHANGED <<scoreVars, cliVars>>

\* store.save(), up to the call of smart_compress in _write_hot_file: the
\* snapshot has been written (memory.py 74-75, 77, 203)
SaveCall ==
    /\ ~InCall
    /\ disk' = Snapshot(memories, categories)
    /\ EnterCompress(HotMaxTokens)
    /\ last' = [op |-> "save", returned |-> FALSE]
    /\ UNCHANGED <<memories, categories, now>>
    /\ UNCHANGED <<scoreVars, cliVars>>

\* smart_compress has returned: get_hot returns its list, which in save is what
\* hot.md is rendered from; the store holds its list as the call left it
HotReturn ==
    /\ InCall
    /\ pc = "done"
    /\ memories' = ItemsAfterCall(items, result)
    /\ last' = [op |-> last.op, returned |-> TRUE, ret |-> result]
    /\ items' = <<>>
    /\ target_tokens' = 0
    /\ preserve_categories' = NoneList
    /\ pc' = "idle"
    /\ protected' = <<>>
    /\ compressible' = <<>>
    /\ result' = <<>>
    /\ current_tokens' = 0
    /\ remaining_budget' = 0
    /\ k' = 0
    /\ UNCHANGED <<categories, now, disk>>
    /\ UNCHANGED <<scoreVars, cliVars>>

\* what is added: a protected item, and two compressible ones
HotKinds ==
    { [category |-> T_arch, content |-> Filler(120), priority |-> "normal"],
      [category |-> T_style, content |-> Filler(120), priority |-> "normal"],
      [category |-> T_style, content |-> Filler(40), priority |-> "low"] }
HotBudgets == {60, 150}
HotRemoveArgs == { Filler(40) }

\* one store object; between the call and the return of get_hot or save nothing
\* else runs (section 5: single-threaded)
NextHot ==
    \/ ~InCall /\ \E kind \in HotKinds : Add(kind.category, kind.content, kind.priority)
    \/ ~InCall /\ \E x \in HotRemoveArgs : Remove(x)
    \/ \E m \in HotBudgets : HotCall(m)
    \/ SaveCall
    \/ CompressStart
    \/ Walk
    \/ Return
    \/ HotReturn

SpecHot == Init /\ [][NextHot]_vars

----------------------------------------------------------------------------
(* Claims about smart_compress *)

Finished == pc \in {"done", "raised"}

\* C2: whenever targetTokens is at least the token sum of the protected items,
\* the token sum of the returned items is at most targetTokens.
C2_CompressionBound ==
    (pc = "done" /\ target_tokens >= SumTokens(protected))
        => SumTokens(result) <= target_tokens

\* item r stands for input item x: x itself, or a derivative of x
Corresponds(r, x) ==
    \/ r = x
    \/ /\ r.compressed = TRUE
       /\ [r EXCEPT !.content = x.content, !.tokens = x.tokens,
                    !.compressed = x.compressed] = x

\* C3: every critical input item has exactly one output item of its id, the item
\* itself or a derivative with compressed = true, in both branches.
C3_ProtectionGuarantee ==
    Finished =>
        \A i \in 1..Len(items) :
            items[i].priority = "critical" =>
                /\ pc = "done"
                /\ Cardinality({j \in 1..Len(result) : result[j].id = items[i].id}) = 1
                /\ \A j \in 1..Len(result) :
                       result[j].id = items[i].id => Corresponds(result[j], items[i])

\* C3's case: the infeasible-budget branch returned a derivative of a critical item
C3_Witness ==
    /\ pc = "done"
    /\ SumTokens(protected) >= target_tokens
    /\ \E i \in 1..Len(items), j \in 1..Len(result) :
           /\ items[i].priority = "critical"
           /\ result[j].id = items[i].id
           /\ result[j].compressed = TRUE
           /\ result[j].content # items[i].content

\* C4: compress never raises, whatever the item list and targetTokens >= 0.
C4_CompressTotal == pc # "raised"

\* the list the caller passed: None stands for the documented default
PassedPreserve == IF preserve_categories = NoneList THEN DefaultPreserve ELSE preserve_categories

ClaimedProtected(item) ==
    item.priority = "critical" \/ InList(item.category, PassedPreserve)

\* C5: an item is protected iff it is critical or its category is in the
\* preserveCategories argument that was passed (the empty list included), and
\* each partition keeps the input order.
C5_PartitionRule ==
    pc # "start" =>
        /\ protected = SelectSeq(items, ClaimedProtected)
        /\ SumTokens(protected) >= target_tokens =>
               compressible = SelectSeq(items, LAMBDA x : ~ClaimedProtected(x))
        /\ {compressible[j] : j \in 1..Len(compressible)}
               = {items[i] : i \in {m \in 1..Len(items) : ~ClaimedProtected(items[m])}}

----------------------------------------------------------------------------
(* Claims about get_relevant *)

Returned == last.op = "get_relevant"

\* the place in memories of the j-th returned item
PlaceOf(j) == CHOOSE i \in 1..Len(memories) : memories[i] = relevant[j]

ScoreAt(i) == Score(memories[i], query, now)

\* item i is ranked before item j: a higher score, or the same and stored earlier
RankedBefore(i, j) ==
    ScoreAt(i) > ScoreAt(j) \/ (ScoreAt(i) = ScoreAt(j) /\ i < j)

\* C6: get_relevant returns exactly the items of score > 0, by descending score,
\* equal scores in insertion order, cut to the first maxItems.
C6_RankedPositiveTruncated ==
    Returned =>
        LET positive == {i \in 1..Len(memories) : ScoreAt(i) > 0}
            places == {PlaceOf(j) : j \in 1..Len(relevant)}
        IN /\ \A j \in 1..Len(relevant) : \E i \in 1..Len(memories) : memories[i] = relevant[j]
           /\ places \subseteq positive
           /\ Len(relevant) = Min(max_items, Cardinality(positive))
           /\ \A j \in 1..(Len(relevant) - 1) : RankedBefore(PlaceOf(j), PlaceOf(j + 1))
           /\ \A i \in positive \ places : \A j \in places : RankedBefore(j, i)

\* C6's case: of three items the first has a score <= 0 and is left out, the
\* other two have the same score and come back in insertion order
C6_Witness ==
    /\ Returned
    /\ Len(memories) = 3
    /\ ScoreAt(1) <= 0
    /\ ScoreAt(2) = ScoreAt(3)
    /\ relevant = <<memories[2], memories[3]>>

InScenario ==
    /\ query = T_port
    /\ Len(memories) = 2
    /\ memories[1].content = T_runs_on_port_8002 /\ memories[1].category = T_api
    /\ memories[2].content = T_use_tabs /\ memories[2].category = T_style

\* nothing of the query matches the item, and its priority is normal
Unrelated(item) ==
    /\ CategoryMatch(Lower(query), Lower(item.category)) = 0
    /\ Words(Lower(query)) \cap Words(Lower(item.content)) = {}
    /\ ~Contains(Lower(query), Lower(item.content))
    /\ item.priority = "normal"

IsReturned(item) == \E j \in 1..Len(relevant) : relevant[j] = item

\* C7 as claimed: whenever the items were added, "port" returns the api item and
\* not the style item, and no unrelated normal-priority item is ever returned.
C7_ScenarioAnyTime ==
    Returned =>
        /\ InScenario =>
              /\ ScoreAt(1) > 0 /\ relevant[1] = memories[1]
              /\ ScoreAt(2) <= 0 /\ ~IsReturned(memories[2])
        /\ \A i \in 1..Len(memories) : Unrelated(memories[i]) => ~IsReturned(memories[i])

\* at least a week (168 h) old at the time of the query
WeekOld(item) == now - item.timestamp >= 168

\* C7 amended: the style item, and any unrelated normal-priority item, is excluded
\* when it is at least 168 hours old; the api item is returned at any age.
C7_ScenarioWeekOld ==
    Returned =>
        /\ InScenario =>
              /\ ScoreAt(1) > 0 /\ relevant[1] = memories[1]
              /\ WeekOld(memories[2]) => (ScoreAt(2) <= 0 /\ ~IsReturned(memories[2]))
        /\ \A i \in 1..Len(memories) :
              (Unrelated(memories[i]) /\ WeekOld(memories[i])) => ~IsReturned(memories[i])

\* C7's case: the scenario with a week-old style item, answered by the api item alone
C7_Witness ==
    /\ Returned
    /\ InScenario
    /\ WeekOld(memories[2])
    /\ relevant = <<memories[1]>>

\* item y is like item x (category, priority, timestamp) but for one occurrence
\* of the query inserted after the first p characters of its content
InsertedAt(x, y, p) ==
    /\ p \in 0..Len(x.content)
    /\ y.content = Insert(x.content, query, p)
    /\ y.category = x.category
    /\ y.priority = x.priority
    /\ y.timestamp = x.timestamp

\* the inserted occurrence does not adjoin a non-blank character of the content:
\* at each end there is the end of the content or a blank, of the content or of
\* the query itself
Separated(content, p) ==
    /\ \/ p = 0
       \/ IsSpace(content[p])
       \/ (query # <<>> /\ IsSpace(query[1]))
    /\ \/ p = Len(content)
       \/ IsSpace(content[p + 1])
       \/ (query # <<>> /\ IsSpace(query[Len(query)]))

\* C8 as claimed: inserting an occurrence of the query anywhere in the content,
\* next to a word included, never lowers the score.
C8_MonotoneAnywhere ==
    Returned =>
        \A i, j \in 1..Len(memories) : \A p \in 0..Len(memories[i].content) :
            InsertedAt(memories[i], memories[j], p)
                => ScoreAt(j) >= ScoreAt(i)

\* C8 amended: inserting an occurrence of the query that is separated by
\* whitespace (or the ends of the content) from the characters around it never
\* lowers the score.
C8_MonotoneSeparated ==
    Returned =>
        \A i, j \in 1..Len(memories) : \A p \in 0..Len(memories[i].content) :
            (/\ InsertedAt(memories[i], memories[j], p)
             /\ Separated(memories[i].content, p))
                => ScoreAt(j) >= ScoreAt(i)

\* C8's case: a separated insertion that gives the second item a strictly higher score
C8_Witness ==
    /\ Returned
    /\ Len(memories) = 2
    /\ \E p \in 0..Len(memories[1].content) :
          /\ InsertedAt(memories[1], memories[2], p)
          /\ Separated(memories[1].content, p)
          /\ memories[1].content # <<>>
          /\ query # <<>>
    /\ ScoreAt(2) > ScoreAt(1)

----------------------------------------------------------------------------
(* Claims about the store *)

HasColon(t) == \E i \in 1..Len(t) : t[i] = ":"

\* the live items of category c
LiveOf(c) == SelectSeq(memories, LAMBDA m : m.category = c)

\* C1: from the empty store, after any adds and removes, every aggregate holds the
\* number and the token sum of the live items of its category, every live item's
\* category has an aggregate, and an item added as "cat:sub" is counted under "cat".
C1_AggregatesConsistent ==
    /\ \A c \in DOMAIN categories :
          /\ categories[c].count = Len(LiveOf(c))
          /\ categories[c].tokens = SumTokens(LiveOf(c))
          /\ ~HasColon(c)
    /\ \A i \in 1..Len(memories) : memories[i].category \in DOMAIN categories
    /\ last.op = "add" =>
          LET c == last.ret.category
          IN /\ c \in DOMAIN categories
             /\ \/ last.arg = c
                \/ /\ Len(last.arg) > Len(c)
                   /\ SubSeq(last.arg, 1, Len(c)) = c
                   /\ last.arg[Len(c) + 1] = ":"

\* C1's case: after a remove, one aggregate is back at zero and another counts an
\* item that was added as "cat:sub"
C1_Witness ==
    /\ last.op = "remove"
    /\ last.found
    /\ \E c \in DOMAIN categories : categories[c].count = 0 /\ categories[c].tokens = 0
    /\ \E i \in 1..Len(memories) :
          /\ memories[i].subcategory # NoneStr
          /\ categories[memories[i].category].count = 1

\* item m matches x: its id is x, or its content contains x
ClaimedMatch(m, x) ==
    m.id = x \/ \E a \in 0..(Len(m.content) - Len(x)) :
                   SubSeq(m.content, a + 1, a + Len(x)) = x

\* C9: a remove(x) that some item matches removes exactly the first item, in
\* collection order, whose id is x or whose content contains x; it returns that
\* item, takes 1 and its token count off its category's aggregate, and leaves the
\* other items, their order and the other aggregates as they were.
C9_RemovesFirstMatch ==
    [][ \A x \in RemoveArgs :
          (Remove(x) /\ \E i \in 1..Len(memories) : ClaimedMatch(memories[i], x)) =>
             \E i \in 1..Len(memories) :
                /\ ClaimedMatch(memories[i], x)
                /\ \A j \in 1..(i - 1) : ~ClaimedMatch(memories[j], x)
                /\ last'.ret = memories[i]
                /\ Len(memories') = Len(memories) - 1
                /\ \A j \in 1..(i - 1) : memories'[j] = memories[j]
                /\ \A j \in (i + 1)..Len(memories) : memories'[j - 1] = memories[j]
                /\ DOMAIN categories' = DOMAIN categories
                /\ \A c \in DOMAIN categories :
                      IF c = memories[i].category
                      THEN /\ categories'[c].count = categories[c].count - 1
                           /\ categories'[c].tokens = categories[c].tokens - memories[i].tokens
                      ELSE categories'[c] = categories[c] ]_vars

\* C9's case: the removed item matched by its content although a later item,
\* still in the store, has the argument as its id
C9_Witness ==
    /\ last.op = "remove"
    /\ last.found
    /\ last.ret.id # last.arg
    /\ \E i \in 1..Len(memories) : memories[i].id = last.arg

\* C10: a remove(x) that no item matches returns None and leaves the items and
\* the aggregates as they were, and forget then does not save the store.
C10_NotFoundChangesNothing ==
    [][ \A x \in RemoveArgs :
          /\ (Remove(x) /\ \A i \in 1..Len(memories) : ~ClaimedMatch(memories[i], x)) =>
                /\ last'.ret = NoneStr /\ ~last'.found
                /\ memories' = memories
                /\ categories' = categories
                /\ disk' = disk
          /\ (Forget(x) /\ \A i \in 1..Len(LoadedData(disk).memories) :
                              ~ClaimedMatch(LoadedData(disk).memories[i], x)) =>
                /\ last'.ret = NoneStr /\ ~last'.found
                /\ memories' = LoadedData(disk).memories
                /\ categories' = LoadedData(disk).categories
                /\ ~last'.saved
                /\ disk' = FileAfterLoad(disk) ]_vars

\* C10's case: forget found nothing in a snapshot that holds items, and the
\* snapshot is as it was
C10_Witness ==
    /\ last.op = "forget"
    /\ ~last.found
    /\ disk.exists
    /\ Len(disk.memories) > 0
    /\ memories = LoadedData(disk).memories

----------------------------------------------------------------------------
(* Claims about loaded stores, snapshots and concurrent commands *)

\* C11: after every add or remove on any store, a store loaded from a snapshot
\* whose aggregates are smaller than its items imply included, every category
\* aggregate's count and tokens are >= 0 (a decrement below zero is clamped).
C11_AggregatesNonNegative ==
    \A c \in DOMAIN categories : categories[c].count >= 0 /\ categories[c].tokens >= 0

\* C12: a save followed by a load of the same path yields the memories sequence
\* (every field of every item, in the same order) and the categories map that
\* were saved; a load with no snapshot file yields an initialized store with no
\* memories and no categories.
C12_SaveLoadRoundTrip ==
    [][ /\ (Load /\ last.op = "save") =>
              /\ disk.exists
              /\ memories' = memories
              /\ categories' = categories
        /\ (Load /\ ~disk.exists) =>
              /\ memories' = <<>>
              /\ categories' = <<>>
              /\ disk'.exists ]_vars

\* C12's case: a load has read back two saved items, one with a subcategory and
\* one whose content json had to escape
C12_Witness ==
    /\ last.op = "load"
    /\ last.found
    /\ Len(memories) = 2
    /\ \E i \in 1..2 : memories[i].subcategory # NoneStr
    /\ \E i \in 1..2 : memories[i].subcategory = NoneStr
    /\ \E i \in 1..2 : JsonEscape(memories[i].content) # memories[i].content
    /\ DOMAIN categories # {}

\* C13: two add commands on one snapshot file can interleave so that the file
\* ends with the item of the last saver and without the item the other one added
\* (the witness); in every interleaving the file, when the commands have ended,
\* is the whole in-memory snapshot of the last process to save, and so it is
\* whenever the last process to save has ended.
C13_LastWriterWins ==
    (last.op = "save" /\ proc[last.by].pc = "done") =>
        disk = Snapshot(proc[last.by].memories, proc[last.by].categories)

\* the file holds item m
InFile(m) ==
    \E i \in 1..Len(LoadedData(disk).memories) : LoadedData(disk).memories[i] = m

\* C13's case, the lost update: both commands loaded before either saved, both
\* adds returned an item and both commands ended, and the file holds the item of
\* the last saver but not the item of the other
C13_Witness ==
    /\ \A p \in Procs : proc[p].pc = "done" /\ Len(proc[p].added) = 1
    /\ last.op = "save"
    /\ \E q \in Procs \ {last.by} :
          /\ InFile(proc[last.by].added[1])
          /\ ~InFile(proc[q].added[1])
          /\ Len(proc[q].memories) = Len(proc[last.by].memories)

----------------------------------------------------------------------------
(* Claims about ids *)

\* C14: after any adds and removes, two adds of the same content with no clock
\* advance between them included, no two live items share an id, and the id of
\* a removed item is never given to a later item.
C14_IdsNeverShared ==
    [][ \A c \in AddCategories, t \in AddContents :
          Add(c, t, "normal") =>
             /\ \A i \in 1..Len(memories) : memories[i].id # last'.ret.id
             /\ (last.op = "remove" /\ last.found) => last.ret.id # last'.ret.id ]_vars

\* what does hold: two live items of one id have the same content and were
\* added at the same reading of the clock
SameIdSameInput ==
    \A i, j \in 1..Len(memories) :
        memories[i].id = memories[j].id =>
            /\ memories[i].content = memories[j].content
            /\ memories[i].timestamp = memories[j].timestamp

----------------------------------------------------------------------------
(* Claims about the two branches of smart_compress *)

EndsWithEllipsis(t) == Len(t) >= 3 /\ SubSeq(t, Len(t) - 2, Len(t)) = Ellipsis

\* what the infeasible-budget branch is claimed to return for protected item x
\* under the share: x itself if it fits, else a derivative within the share
ClaimedShareOutput(r, x, share) ==
    IF x.tokens <= share THEN r = x
    ELSE /\ Corresponds(r, x)
         /\ r.compressed = TRUE
         /\ EndsWithEllipsis(r.content)
         /\ r.tokens = Count(r.content)
         /\ r.tokens <= share

\* the outputs of the branch, once it has returned
InfeasibleOutputs ==
    /\ pc = "done"
    /\ Len(result) = Len(protected)
    /\ \A j \in 1..Len(protected) :
          ClaimedShareOutput(result[j], protected[j],
                             Max(50, target_tokens \div Len(protected)))

\* C15: whenever the protected token sum is >= targetTokens, compress returns
\* one output per protected item, in their order, and no compressible item: the
\* item itself if its tokens are <= share = max(50, targetTokens div
\* count(protected)), else a derivative with compressed = true, content ending in
\* the ellipsis marker and tokens <= share.
C15_InfeasibleBranch ==
    (Finished /\ SumTokens(protected) >= target_tokens) => InfeasibleOutputs

\* what does hold: the same, whenever there is at least one protected item
InfeasibleBranchNonEmpty ==
    (Finished /\ SumTokens(protected) >= target_tokens /\ protected # <<>>)
        => InfeasibleOutputs

\* C16: in the greedy walk, the remaining budget used for an item that does not
\* fit whole is targetTokens minus the running total of everything accepted so
\* far; the item is summarized only if that is > 100, to at most half of it, and
\* is skipped otherwise.
C16_BudgetIsCurrent ==
    [][ (Walk /\ ~FitsWhole(compressible[k])) =>
           LET budget == target_tokens - current_tokens
           IN /\ remaining_budget = budget
              /\ IF budget > 100
                 THEN /\ Len(result') = Len(result) + 1
                      /\ result'[Len(result')].tokens <= budget \div 2
                 ELSE result' = result ]_vars

\* what does hold: before any whole compressible item has been accepted, the
\* budget the walk uses is the current one
BudgetCurrentUntilWhole ==
    (pc = "walk" /\ \A j \in (Len(protected) + 1)..Len(result) : result[j].compressed)
        => remaining_budget = target_tokens - current_tokens

\* r is content x cut short: a proper prefix, right-stripped, and the ellipsis
IsTruncationOf(r, x) ==
    /\ r # x
    /\ \E n \in 0..(Len(x) - 1) : r = RStrip(SubSeq(x, 1, n)) \o Ellipsis

\* C17: an output item has compressed = true only if it is a real derivative: its
\* content is a truncation of, and differs from, the content of the input item of
\* its id, and its token count is that of the shortened content; an item returned
\* with its content unchanged never has compressed = true.
C17_CompressedOnlyIfDerived ==
    pc = "done" =>
        \A j \in 1..Len(result) :
            result[j].compressed = TRUE =>
                \E i \in 1..Len(items) :
                    /\ items[i].id = result[j].id
                    /\ IsTruncationOf(result[j].content, items[i].content)
                    /\ result[j].tokens = Count(result[j].content)

\* what does hold: the same in the infeasible-budget branch
DerivedInInfeasibleBranch ==
    SumTokens(protected) >= target_tokens => C17_CompressedOnlyIfDerived

----------------------------------------------------------------------------
(* Claims about what is persisted *)

\* an item as add built it: not compressed, one of the contents that were added,
\* and the token count of that content
AsAdded(m) ==
    /\ m.compressed = FALSE
    /\ \E kind \in HotKinds : m.content = kind.content
    /\ m.tokens = Count(m.content)

\* C18: compress, get_hot and the rendering done inside save leave the store's
\* memories sequence and its category aggregates unchanged, so after any adds,
\* removes, get_hots and saves every item of the store and of the saved snapshot
\* has compressed = false and its original content.
C18_DerivativesNotPersisted ==
    /\ [](/\ \A i \in 1..Len(memories) : AsAdded(memories[i])
          /\ \A i \in 1..Len(LoadedData(disk).memories) :
                 AsAdded(LoadedData(disk).memories[i])
          /\ \A c \in DOMAIN categories :
                 /\ categories[c].count = Len(LiveOf(c))
                 /\ categories[c].tokens = SumTokens(LiveOf(c)))
    /\ [][ (CompressStart \/ Walk \/ Return \/ HotReturn \/ SaveCall
             \/ \E m \in HotBudgets : HotCall(m))
              => (memories' = memories /\ categories' = categories) ]_vars

\* C18's case: after a save, get_hot has returned a derivative of an item, and
\* the store and the snapshot still hold that item as it was added
C18_Witness ==
    /\ last.op = "get_hot"
    /\ last.returned
    /\ disk.exists
    /\ memories # <<>>
    /\ LoadedData(disk).memories = memories
    /\ \E j \in 1..Len(last.ret), i \in 1..Len(memories) :
          /\ last.ret[j].id = memories[i].id
          /\ last.ret[j].compressed = TRUE
          /\ last.ret[j].content # memories[i].content

====
